---- MODULE Spec2Model ----
(***************************************************************************)
(* Voucher ("cheque") lifecycle of src/App.js: handleCreateCheque (issue), *)
(* handleActivateCheque (redeem), handleDeleteCheque (cancel),             *)
(* changeBalance and the sign-in callback of onAuthStateChanged, run by    *)
(* several client sessions against one shared document store.  Every       *)
(* awaited store call is one step of the session that issued it; the       *)
(* synchronous code that follows the call up to the next await belongs to  *)
(* the same step.  Amounts are whole minor units.  A session runs one      *)
(* handler at a time.                                                      *)
(***************************************************************************)
EXTENDS Integers, FiniteSets, Sequences, TLC

\* ---------------------------------------------------------------- bounds
MaxCmds == 2        \* handler invocations (issue / redeem / cancel) in one run
MaxFails == 1       \* store calls that are rejected in one run
MaxAmount == 2      \* largest amount typed into the issue form
MaxInitBalance == 2 \* largest balance a profile holds before the run

\* ----------------------------------------------------------- the universe
Users == {"A", "B", "C"}
Sessions == {"s1", "s2", "s3"}
ShortIds == {"k1", "k2"}
Ids == Users \X ShortIds
NoId == <<"", "">>
NoUser == "none"    \* userId of a session that has not signed in (null)

\* the sessions of a run: three users with one session each, or one user
\* signed in from two sessions while the third session has not signed in,
\* or no session signed in yet
Logins ==
    { [s \in Sessions |-> CASE s = "s1" -> "A" [] s = "s2" -> "B" [] OTHER -> "C"],
      [s \in Sessions |-> CASE s = "s1" -> "A" [] s = "s2" -> "A" [] OTHER -> NoUser],
      [s \in Sessions |-> NoUser] }

\* the sessions that open the app during a run that starts with no
\* session signed in
Arrivals == {"s2", "s3"}

\* where the sign-in of the sessions of login l stands: a session with a
\* user has completed it; when no session has a user yet the arrivals are
\* about to sign in ("out"); any other session without user is one whose
\* sign-in was rejected (the awaited signInAnonymously threw, the page
\* stays on the loading screen)
SignInAt(l) ==
    [s \in Sessions |->
        IF l[s] # NoUser THEN "done"
        ELSE IF s \in Arrivals /\ \A t \in Sessions : l[t] = NoUser THEN "out"
        ELSE "failed"]

\* the user whose sessions sign in during the run
Arriving == "C"

VARIABLES
    uid,            \* session -> signed-in user (userId, line 25)
    signin,         \* session -> position of its onAuthStateChanged callback
    profile,        \* user -> the profile document exists
    balance,        \* user -> profile document's balance field
    own,            \* id -> document of users/{owner}/cheques/{id}
    pub,            \* id -> document of public/data/cheques/{id}
    userBalance,    \* session -> React state userBalance (line 27)
    activeCheques,  \* session -> React state activeCheques (line 28)
    loading,        \* session -> React state loading (line 37)
    showModal,      \* session -> React state showModal (line 35)
    pc,             \* session -> the await its handler is suspended at
    cmd,            \* session -> values captured by the running handler
    message,        \* session -> what showMessage has shown last
    nCmds,          \* handler invocations so far
    nFails,         \* store calls rejected so far
    net,            \* user -> balance the committed debits and credits add up to
    issued,         \* id -> times the owner's copy of the voucher was written
    debits,         \* id -> issue debits committed for the voucher
    credits,        \* id -> credits committed for the voucher, by redeems (r) and by cancels (c)
    redeems,        \* id -> redeems that reported success
    cancels,        \* id -> cancels that reported success
    lastIssue       \* the issue that the latest handler invocations belong to

vars == <<uid, signin, profile, balance, own, pub, userBalance, activeCheques, loading,
          showModal, pc, cmd, message, nCmds, nFails, net, issued, debits,
          credits, redeems, cancels, lastIssue>>

store == <<balance, own, pub>>
signon == <<uid, signin, profile>>
ledger == <<net, issued, debits, credits, redeems, cancels, lastIssue>>

\* ------------------------------------------------------------- documents
NoDoc == [exists |-> FALSE, short_id |-> "", owner_id |-> "", amount |-> 0,
          active |-> 0, anonymous |-> FALSE]

\* the fields handleCreateCheque writes to both copies; the public copy's
\* owner_first_name and owner_username are the owner's, given by owner_id
ChequeDoc(u, k, a, anon) ==
    [exists |-> TRUE, short_id |-> k, owner_id |-> u, amount |-> a,
     active |-> 1, anonymous |-> anon]

\* fullChequeId = `${userId}-${chequeId}`
FullChequeId(u, k) == <<u, k>>

\* the latest handler invocation was no issue that ran alone; such an issue
\* is recorded with its voucher id and amount, the session that ran it (by),
\* the stored balance it started from (bal), and whether the one invocation
\* that followed its completion is the cancel of its voucher
NoIssue == [id |-> NoId, amount |-> 0, by |-> "", bal |-> 0, cancelling |-> FALSE]

\* an issue runs alone when every session is idle at its start and no record
\* has the id of its voucher
RunsAlone(i) ==
    /\ \A t \in Sessions : pc[t] = "idle"
    /\ ~own[i].exists /\ ~pub[i].exists

NoCmd == [id |-> NoId, amount |-> 0, capBalance |-> 0, anonymous |-> FALSE,
          delta |-> 0, wasFinal |-> FALSE, replay |-> FALSE]

\* showMessage(text): the outcome, and for the confirmation of a redeem the
\* amount and the owner it names
Msg(t) == [text |-> t, amount |-> 0, from |-> ""]

\* the confirmation that names the owner whatever the anonymous field says
Confirmation_named(c) ==
    [text |-> "Activated", amount |-> c.amount, from |-> c.id[1]]

\* the confirmation of a redeem, from the chequeData c it has read: the
\* amount, and chequeData.owner_first_name and owner_username unless
\* chequeData.anonymous
Confirmation(c) ==
    [text |-> "Activated", amount |-> c.amount,
     from |-> IF c.anonymous THEN "" ELSE c.id[1]]

\* the query without its where clause: every cheque of the user
ActiveChequesOf_all(u, ownDocs) ==
    { [id |-> i, amount |-> ownDocs[i].amount] :
        i \in { j \in Ids : j[1] = u /\ ownDocs[j].exists } }

\* where('active', '==', 1) over the user's own cheques, mapped to
\* { id: doc.id, ...doc.data() }
ActiveChequesOf(u, ownDocs) ==
    { [id |-> i, amount |-> ownDocs[i].amount] :
        i \in { j \in Ids : j[1] = u /\ ownDocs[j].exists /\ ownDocs[j].active = 1 } }

\* a store call may be rejected while the run has rejections left
MayFail == nFails < MaxFails

\* a handler can be started: the session is signed in (if (!db || !userId)
\* return), the page is rendered (not loading) and no modal covers it
Idle(s) == uid[s] # NoUser /\ pc[s] = "idle" /\ ~loading[s] /\ ~showModal[s]

\* the listeners of the session that issued a write see it at once (local
\* writes are applied to the session's own snapshot listeners); the other
\* sessions get it with SnapshotProfile / SnapshotCheques
ViewBalance(s, newBalance) ==
    userBalance' = [userBalance EXCEPT ![s] = newBalance[uid[s]]]

ViewCheques(s, newOwn) ==
    activeCheques' = [activeCheques EXCEPT ![s] = ActiveChequesOf(uid[s], newOwn)]

\* the store before the run: A and B hold funds, C holds none and has a
\* profile only when a session is signed in as C, and A has issued the
\* voucher <<A, k1>> of amount 1 (debited, both copies written, listed by
\* A's sessions); a session that has not signed in shows the loading page
\* (useState(true))
Init ==
    /\ uid \in Logins
    /\ signin = SignInAt(uid)
    /\ profile = [u \in Users |-> u \in {"A", "B"} \/ \E s \in Sessions : uid[s] = u]
    /\ balance = [u \in Users |-> IF u = "C" THEN 0 ELSE MaxInitBalance]
    /\ own = [i \in Ids |-> IF i = <<"A", "k1">> THEN ChequeDoc("A", "k1", 1, FALSE) ELSE NoDoc]
    /\ debits = [i \in Ids |-> IF i = <<"A", "k1">> THEN 1 ELSE 0]
    /\ pub = own
    /\ issued = debits
    /\ userBalance = [s \in Sessions |-> IF uid[s] = NoUser THEN 0 ELSE balance[uid[s]]]
    /\ activeCheques = [s \in Sessions |-> ActiveChequesOf(uid[s], own)]
    /\ loading = [s \in Sessions |-> uid[s] = NoUser]
    /\ showModal = [s \in Sessions |-> FALSE]
    /\ pc = [s \in Sessions |-> "idle"]
    /\ cmd = [s \in Sessions |-> NoCmd]
    /\ message = [s \in Sessions |-> Msg("none")]
    /\ nCmds = 0
    /\ nFails = 0
    /\ net = balance
    /\ credits = [i \in Ids |-> [r |-> 0, c |-> 0]]
    /\ redeems = [i \in Ids |-> 0]
    /\ cancels = [i \in Ids |-> 0]
    /\ lastIssue = NoIssue

\* =============================================================== sign-in
\* a user who has no profile yet opens the app: onAuthStateChanged calls
\* back without user, the callback signs in, and onAuthStateChanged calls
\* back with the user: setUserId(user.uid) and await getDoc(userDocRef),
\* while the setLoading(false) of the first callback (line 85) shows the
\* page.  When the profile exists the state is set from it and the callback
\* ends; when it does not, the callback goes on to create it; a rejected
\* getDoc ends the callback where it is.
SignIn(s) ==
    /\ signin[s] = "out"
    /\ uid' = [uid EXCEPT ![s] = Arriving]
    /\ loading' = [loading EXCEPT ![s] = FALSE]
    /\ \/ /\ profile[Arriving]
          /\ signin' = [signin EXCEPT ![s] = "done"]
          /\ userBalance' = [userBalance EXCEPT ![s] = balance[Arriving]]
          /\ UNCHANGED nFails
       \/ /\ ~profile[Arriving]
          /\ signin' = [signin EXCEPT ![s] = "create"]
          /\ UNCHANGED <<userBalance, nFails>>
       \/ /\ MayFail
          /\ nFails' = nFails + 1
          /\ signin' = [signin EXCEPT ![s] = "done"]
          /\ UNCHANGED userBalance
    /\ activeCheques' = [activeCheques EXCEPT ![s] = ActiveChequesOf(Arriving, own)]
    /\ UNCHANGED <<profile, store, showModal, pc, cmd, message, nCmds, ledger>>

\* await setDoc(userDocRef, {..., balance: 0, ...}), setUserBalance(0),
\* setLoading(false); a rejected setDoc ends the callback
SignInCreate(s) ==
    /\ signin[s] = "create"
    /\ signin' = [signin EXCEPT ![s] = "done"]
    /\ \/ /\ profile' = [profile EXCEPT ![uid[s]] = TRUE]
          /\ balance' = [balance EXCEPT ![uid[s]] = 0]
          /\ userBalance' = [userBalance EXCEPT ![s] = 0]
          /\ loading' = [loading EXCEPT ![s] = FALSE]
          /\ UNCHANGED nFails
       \/ /\ MayFail
          /\ nFails' = nFails + 1
          /\ UNCHANGED <<profile, balance, userBalance, loading>>
    /\ UNCHANGED <<uid, own, pub, activeCheques, showModal, pc, cmd, message,
                   nCmds, ledger>>

\* ================================================================ issue
\* what is typed into the amount field: nothing valid, the smallest amount,
\* the largest one
AmountInputs == {0, 1, MaxAmount}

\* the issue form as submitted: the amount field and the anonymous checkbox,
\* which is ticked for the largest amount
IssueForms == { [amount |-> a, anonymous |-> (a = MaxAmount)] : a \in AmountInputs }

\* the validation without its test: every amount passes
InvalidAmount_never(a) == FALSE

\* parseFloat(createAmount) gave NaN or a value <= 0 (0 stands for both)
InvalidAmount(a) == a <= 0

\* the funds check without its comparison: every amount passes
InsufficientFunds_never(a, bal) == FALSE

\* amount > userBalance
InsufficientFunds(a, bal) == a > bal

\* session s submits again the issue it has just completed: its latest
\* outcome is the success of an issue of the same amount, which ran alone,
\* and no handler has been invoked since
IsReplay(s, a) ==
    /\ message[s].text = "Created"
    /\ lastIssue.by = s
    /\ lastIssue.amount = a
    /\ ~lastIssue.cancelling

\* handleCreateCheque up to its first await: parse, validate, check the
\* funds against the session's userBalance, setLoading(true),
\* generateShortId
CreateStart(s, a, k, anon) ==
    /\ Idle(s)
    /\ nCmds < MaxCmds
    /\ nCmds' = nCmds + 1
    /\ IF InvalidAmount(a)
         THEN /\ message' = [message EXCEPT ![s] = Msg("InvalidAmount")]
              /\ lastIssue' = NoIssue
              /\ UNCHANGED <<pc, cmd, loading>>
         ELSE IF InsufficientFunds(a, userBalance[s])
         THEN /\ message' = [message EXCEPT ![s] = Msg("InsufficientFunds")]
              /\ lastIssue' = NoIssue
              /\ UNCHANGED <<pc, cmd, loading>>
         ELSE /\ loading' = [loading EXCEPT ![s] = TRUE]
              /\ pc' = [pc EXCEPT ![s] = "create_debit"]
              /\ cmd' = [cmd EXCEPT ![s] =
                           [NoCmd EXCEPT !.id = FullChequeId(uid[s], k),
                                         !.amount = a,
                                         !.anonymous = anon,
                                         !.capBalance = userBalance[s],
                                         !.replay = IsReplay(s, a)]]
              /\ lastIssue' = IF RunsAlone(FullChequeId(uid[s], k))
                                 THEN [id |-> FullChequeId(uid[s], k), amount |-> a,
                                       by |-> s, bal |-> balance[uid[s]],
                                       cancelling |-> FALSE]
                                 ELSE NoIssue
              /\ UNCHANGED message
    /\ UNCHANGED <<signon, store, userBalance, activeCheques, showModal, nFails,
                   net, issued, debits, credits, redeems, cancels>>

\* changeBalance(amount) as called by session s: updateDoc of the profile
\* with the captured userBalance + amount; a rejected write is caught and
\* only shown, the caller continues
ChangeBalanceWrite(s, amount) ==
    [balance EXCEPT ![uid[s]] = cmd[s].capBalance + amount]

\* the updateDoc of changeBalance is rejected: by the store, or because the
\* profile document does not exist
ChangeBalanceRejected(s) ==
    \/ MayFail /\ nFails' = nFails + 1
    \/ ~profile[uid[s]] /\ nFails' = nFails

\* await changeBalance(-amount)
CreateDebit(s) ==
    /\ pc[s] = "create_debit"
    /\ \/ /\ profile[uid[s]]
          /\ balance' = ChangeBalanceWrite(s, 0 - cmd[s].amount)
          /\ ViewBalance(s, balance')
          /\ net' = [net EXCEPT ![uid[s]] = @ - cmd[s].amount]
          /\ debits' = [debits EXCEPT ![cmd[s].id] = @ + 1]
          /\ cmd' = [cmd EXCEPT ![s].delta = balance[uid[s]] - balance'[uid[s]]]
          /\ message' = [message EXCEPT ![s] = Msg("BalanceUpdated")]
          /\ UNCHANGED nFails
       \/ /\ ChangeBalanceRejected(s)
          /\ message' = [message EXCEPT ![s] = Msg("BalanceError")]
          /\ UNCHANGED <<balance, userBalance, net, debits, cmd>>
    /\ pc' = [pc EXCEPT ![s] = "create_own"]
    /\ UNCHANGED <<signon, own, pub, activeCheques, loading, showModal, nCmds,
                   issued, credits, redeems, cancels, lastIssue>>

\* the catch block without the finally block: the error is shown and the
\* loading flag is left as it is
Abort_keepLoading(s, msg) ==
    /\ message' = [message EXCEPT ![s] = Msg(msg)]
    /\ UNCHANGED loading
    /\ pc' = [pc EXCEPT ![s] = "idle"]
    /\ cmd' = [cmd EXCEPT ![s] = NoCmd]

\* the catch and finally blocks of a handler: show the error, setLoading(false)
Abort(s, msg) ==
    /\ message' = [message EXCEPT ![s] = Msg(msg)]
    /\ loading' = [loading EXCEPT ![s] = FALSE]
    /\ pc' = [pc EXCEPT ![s] = "idle"]
    /\ cmd' = [cmd EXCEPT ![s] = NoCmd]

\* await setDoc(senderChequeDocRef, {...})
CreateOwn(s) ==
    /\ pc[s] = "create_own"
    /\ \/ /\ own' = [own EXCEPT ![cmd[s].id] =
                       ChequeDoc(uid[s], cmd[s].id[2], cmd[s].amount, cmd[s].anonymous)]
          /\ ViewCheques(s, own')
          /\ issued' = [issued EXCEPT ![cmd[s].id] = @ + 1]
          /\ pc' = [pc EXCEPT ![s] = "create_pub"]
          /\ UNCHANGED <<message, loading, cmd, nFails>>
       \/ /\ MayFail
          /\ nFails' = nFails + 1
          /\ Abort(s, "CreateError")
          /\ UNCHANGED <<own, activeCheques, issued>>
    /\ UNCHANGED <<signon, balance, pub, userBalance, showModal, nCmds, net, debits,
                   credits, redeems, cancels, lastIssue>>

\* await setDoc(publicChequeDocRef, {...}), then the success message and
\* the finally block
CreatePub(s) ==
    /\ pc[s] = "create_pub"
    /\ \/ /\ pub' = [pub EXCEPT ![cmd[s].id] =
                       ChequeDoc(uid[s], cmd[s].id[2], cmd[s].amount, cmd[s].anonymous)]
          /\ message' = [message EXCEPT ![s] = Msg("Created")]
          /\ loading' = [loading EXCEPT ![s] = FALSE]
          /\ pc' = [pc EXCEPT ![s] = "idle"]
          /\ cmd' = [cmd EXCEPT ![s] = NoCmd]
          /\ UNCHANGED nFails
       \/ /\ MayFail
          /\ nFails' = nFails + 1
          /\ Abort(s, "CreateError")
          /\ UNCHANGED pub
    /\ UNCHANGED <<signon, balance, own, userBalance, activeCheques, showModal,
                   nCmds, ledger>>

\* ================================================================ redeem
\* the order of querySnapshot.docs: by document id, that is by owner first
Rank(u) == CASE u = "A" -> 1 [] u = "B" -> 2 [] OTHER -> 3

\* query(publicChequesRef, where('short_id', '==', code))
Matches(k) == { i \in Ids : pub[i].exists /\ pub[i].short_id = k }

\* the loop without its test of the active field: the first document
FirstActive_anyMatch(k) ==
    IF Matches(k) = {} THEN NoId
    ELSE CHOOSE i \in Matches(k) : \A j \in Matches(k) : Rank(i[1]) <= Rank(j[1])

\* the for loop over querySnapshot.docs: the first document with active === 1
FirstActive(k) ==
    LET act == { i \in Matches(k) : pub[i].active = 1 }
    IN  IF act = {} THEN NoId
        ELSE CHOOSE i \in act : \A j \in act : Rank(i[1]) <= Rank(j[1])

\* the handler without its test of the code: every code is looked up
EmptyCode_never(k) == FALSE

\* !activateChequeId: nothing was typed into the code field
EmptyCode(k) == k = ""

\* handleActivateCheque up to the first updateDoc: the empty-code check,
\* setLoading(true), await getDocs(q), the search for an active cheque and
\* the three rejections, each with its own setLoading(false)
ActivateQuery(s, k) ==
    /\ Idle(s)
    /\ nCmds < MaxCmds
    /\ nCmds' = nCmds + 1
    /\ IF EmptyCode(k)
         THEN /\ message' = [message EXCEPT ![s] = Msg("EmptyCode")]
              /\ UNCHANGED <<pc, cmd, loading, nFails>>
         ELSE \/ /\ MayFail
                 /\ nFails' = nFails + 1
                 /\ message' = [message EXCEPT ![s] = Msg("ActivateError")]
                 /\ UNCHANGED <<pc, cmd, loading>>
              \/ /\ UNCHANGED nFails
                 /\ IF Matches(k) = {}
                      THEN /\ message' = [message EXCEPT ![s] = Msg("NotExist")]
                           /\ UNCHANGED <<pc, cmd, loading>>
                      ELSE IF FirstActive(k) = NoId
                      THEN /\ message' = [message EXCEPT ![s] = Msg("ActivatedOrDeleted")]
                           /\ UNCHANGED <<pc, cmd, loading>>
                      ELSE IF pub[FirstActive(k)].owner_id = uid[s]
                      THEN /\ message' = [message EXCEPT ![s] = Msg("SelfActivation")]
                           /\ UNCHANGED <<pc, cmd, loading>>
                      ELSE /\ loading' = [loading EXCEPT ![s] = TRUE]
                           /\ pc' = [pc EXCEPT ![s] = "act_pub"]
                           /\ cmd' = [cmd EXCEPT ![s] =
                                [NoCmd EXCEPT !.id = FirstActive(k),
                                              !.amount = pub[FirstActive(k)].amount,
                                              !.anonymous = pub[FirstActive(k)].anonymous,
                                              !.capBalance = userBalance[s]]]
                           /\ UNCHANGED message
    /\ lastIssue' = NoIssue
    /\ UNCHANGED <<signon, store, userBalance, activeCheques, showModal,
                   net, issued, debits, credits, redeems, cancels>>

\* await updateDoc(chequeRef, { active: 0 })
ActivatePub(s) ==
    /\ pc[s] = "act_pub"
    /\ \/ /\ pub' = [pub EXCEPT ![cmd[s].id].active = 0]
          /\ pc' = [pc EXCEPT ![s] = "act_own"]
          /\ UNCHANGED <<message, loading, cmd, nFails>>
       \/ /\ MayFail
          /\ nFails' = nFails + 1
          /\ Abort(s, "ActivateError")
          /\ UNCHANGED pub
    /\ UNCHANGED <<signon, balance, own, userBalance, activeCheques, showModal,
                   nCmds, ledger>>

\* await updateDoc(senderChequeDocRef, { active: 0 }); updateDoc rejects
\* when the document does not exist
ActivateOwn(s) ==
    /\ pc[s] = "act_own"
    /\ \/ /\ own[cmd[s].id].exists
          /\ own' = [own EXCEPT ![cmd[s].id].active = 0]
          /\ pc' = [pc EXCEPT ![s] = "act_credit"]
          /\ UNCHANGED <<message, loading, cmd, nFails>>
       \/ /\ ~own[cmd[s].id].exists
          /\ Abort(s, "ActivateError")
          /\ UNCHANGED <<own, nFails>>
       \/ /\ MayFail
          /\ nFails' = nFails + 1
          /\ Abort(s, "ActivateError")
          /\ UNCHANGED own
    /\ UNCHANGED <<signon, balance, pub, userBalance, activeCheques, showModal,
                   nCmds, ledger>>

\* await changeBalance(chequeData.amount), then the success message and the
\* finally block
ActivateCredit(s) ==
    /\ pc[s] = "act_credit"
    /\ \/ /\ profile[uid[s]]
          /\ balance' = ChangeBalanceWrite(s, cmd[s].amount)
          /\ ViewBalance(s, balance')
          /\ net' = [net EXCEPT ![uid[s]] = @ + cmd[s].amount]
          /\ credits' = [credits EXCEPT ![cmd[s].id].r = @ + 1]
          /\ UNCHANGED nFails
       \/ /\ ChangeBalanceRejected(s)
          /\ UNCHANGED <<balance, userBalance, net, credits>>
    /\ redeems' = [redeems EXCEPT ![cmd[s].id] = @ + 1]
    /\ message' = [message EXCEPT ![s] = Confirmation(cmd[s])]
    /\ loading' = [loading EXCEPT ![s] = FALSE]
    /\ pc' = [pc EXCEPT ![s] = "idle"]
    /\ cmd' = [cmd EXCEPT ![s] = NoCmd]
    /\ UNCHANGED <<signon, own, pub, activeCheques, showModal, nCmds, issued, debits,
                   cancels, lastIssue>>

\* ================================================================ cancel
\* handleDeleteCheque(cheque): the confirmation modal keeps the cheque of
\* the list and the changeBalance of the render that opened it
DeleteOpen(s, c) ==
    /\ Idle(s)
    /\ nCmds < MaxCmds
    /\ nCmds' = nCmds + 1
    /\ c \in activeCheques[s]
    /\ showModal' = [showModal EXCEPT ![s] = TRUE]
    /\ pc' = [pc EXCEPT ![s] = "modal"]
    /\ cmd' = [cmd EXCEPT ![s] =
                 [NoCmd EXCEPT !.id = c.id, !.amount = c.amount,
                               !.capBalance = userBalance[s]]]
    /\ lastIssue' = IF /\ lastIssue.id = c.id /\ ~lastIssue.cancelling
                       /\ pc[lastIssue.by] = "idle"
                      THEN [lastIssue EXCEPT !.cancelling = TRUE]
                      ELSE NoIssue
    /\ UNCHANGED <<signon, store, userBalance, activeCheques, loading, message,
                   nFails, net, issued, debits, credits, redeems, cancels>>

\* onCancel: () => setShowModal(false)
DeleteDismiss(s) ==
    /\ pc[s] = "modal"
    /\ showModal' = [showModal EXCEPT ![s] = FALSE]
    /\ pc' = [pc EXCEPT ![s] = "idle"]
    /\ cmd' = [cmd EXCEPT ![s] = NoCmd]
    /\ UNCHANGED <<signon, store, userBalance, activeCheques, loading, message,
                   nCmds, nFails, ledger>>

\* the catch and finally blocks of onConfirm
AbortDelete(s) ==
    /\ Abort(s, "DeleteError")
    /\ showModal' = [showModal EXCEPT ![s] = FALSE]

\* onConfirm up to its first await: setLoading(true) and
\* await updateDoc(senderChequeDocRef, { active: 0 })
DeleteOwn(s) ==
    /\ pc[s] = "modal"
    /\ \/ /\ own[cmd[s].id].exists
          /\ own' = [own EXCEPT ![cmd[s].id].active = 0]
          /\ ViewCheques(s, own')
          /\ loading' = [loading EXCEPT ![s] = TRUE]
          /\ pc' = [pc EXCEPT ![s] = "del_pub"]
          /\ cmd' = [cmd EXCEPT ![s].wasFinal = redeems[cmd[s].id] > 0]
          /\ UNCHANGED <<message, showModal, nFails>>
       \/ /\ MayFail
          /\ nFails' = nFails + 1
          /\ AbortDelete(s)
          /\ UNCHANGED <<own, activeCheques>>
    /\ UNCHANGED <<signon, balance, pub, userBalance, nCmds, ledger>>

\* await updateDoc(publicChequeDocRef, { active: 0 })
DeletePub(s) ==
    /\ pc[s] = "del_pub"
    /\ \/ /\ pub[cmd[s].id].exists
          /\ pub' = [pub EXCEPT ![cmd[s].id].active = 0]
          /\ pc' = [pc EXCEPT ![s] = "del_credit"]
          /\ UNCHANGED <<message, loading, showModal, cmd, nFails>>
       \/ /\ ~pub[cmd[s].id].exists
          /\ AbortDelete(s)
          /\ UNCHANGED <<pub, nFails>>
       \/ /\ MayFail
          /\ nFails' = nFails + 1
          /\ AbortDelete(s)
          /\ UNCHANGED pub
    /\ UNCHANGED <<signon, balance, own, userBalance, activeCheques, nCmds, ledger>>

\* await changeBalance(cheque.amount), then the success message and the
\* finally block
DeleteCredit(s) ==
    /\ pc[s] = "del_credit"
    /\ \/ /\ profile[uid[s]]
          /\ balance' = ChangeBalanceWrite(s, cmd[s].amount)
          /\ ViewBalance(s, balance')
          /\ net' = [net EXCEPT ![uid[s]] = @ + cmd[s].amount]
          /\ credits' = [credits EXCEPT ![cmd[s].id].c = @ + 1]
          /\ UNCHANGED nFails
       \/ /\ ChangeBalanceRejected(s)
          /\ UNCHANGED <<balance, userBalance, net, credits>>
    /\ cancels' = [cancels EXCEPT ![cmd[s].id] = @ + 1]
    /\ message' = [message EXCEPT ![s] = Msg("Deleted")]
    /\ loading' = [loading EXCEPT ![s] = FALSE]
    /\ showModal' = [showModal EXCEPT ![s] = FALSE]
    /\ pc' = [pc EXCEPT ![s] = "idle"]
    /\ cmd' = [cmd EXCEPT ![s] = NoCmd]
    /\ UNCHANGED <<signon, own, pub, activeCheques, nCmds, issued, debits, redeems,
                   lastIssue>>

\* ============================================================ projection
\* onSnapshot(userProfileRef, ...): if (docSnap.exists())
\* setUserBalance(data.balance || 0)
SnapshotProfile(s) ==
    /\ uid[s] # NoUser
    /\ profile[uid[s]]
    /\ userBalance[s] # balance[uid[s]]
    /\ userBalance' = [userBalance EXCEPT ![s] = balance[uid[s]]]
    /\ UNCHANGED <<signon, store, activeCheques, loading, showModal, pc, cmd,
                   message, nCmds, nFails, ledger>>

\* onSnapshot(q, ...): setActiveCheques(the user's active cheques)
SnapshotCheques(s) ==
    /\ uid[s] # NoUser
    /\ activeCheques[s] # ActiveChequesOf(uid[s], own)
    /\ activeCheques' = [activeCheques EXCEPT ![s] = ActiveChequesOf(uid[s], own)]
    /\ UNCHANGED <<signon, store, userBalance, loading, showModal, pc, cmd,
                   message, nCmds, nFails, ledger>>

Next ==
    \/ \E s \in Sessions : SignIn(s)
    \/ \E s \in Sessions : SignInCreate(s)
    \/ \E s \in Sessions, f \in IssueForms, k \in ShortIds :
          CreateStart(s, f.amount, k, f.anonymous)
    \/ \E s \in Sessions : CreateDebit(s)
    \/ \E s \in Sessions : CreateOwn(s)
    \/ \E s \in Sessions : CreatePub(s)
    \/ \E s \in Sessions, k \in ShortIds \cup {""} : ActivateQuery(s, k)
    \/ \E s \in Sessions : ActivatePub(s)
    \/ \E s \in Sessions : ActivateOwn(s)
    \/ \E s \in Sessions : ActivateCredit(s)
    \/ \E s \in Sessions : \E c \in activeCheques[s] : DeleteOpen(s, c)
    \/ \E s \in Sessions : DeleteDismiss(s)
    \/ \E s \in Sessions : DeleteOwn(s)
    \/ \E s \in Sessions : DeletePub(s)
    \/ \E s \in Sessions : DeleteCredit(s)
    \/ \E s \in Sessions : SnapshotProfile(s)
    \/ \E s \in Sessions : SnapshotCheques(s)

Spec == Init /\ [][Next]_vars

\* a registered onSnapshot listener is called after every change of what it
\* listens to: a pending delivery is not postponed for ever
ListenersDeliver ==
    \A s \in Sessions : WF_vars(SnapshotProfile(s)) /\ WF_vars(SnapshotCheques(s))

FairSpec == Spec /\ ListenersDeliver

\* every store call that a handler awaits returns or is rejected: a handler
\* suspended at an await is resumed.  Confirming or dismissing the modal is
\* up to the user and is not assumed.
StoreCallsReturn ==
    \A s \in Sessions :
        /\ WF_vars(CreateDebit(s)) /\ WF_vars(CreateOwn(s)) /\ WF_vars(CreatePub(s))
        /\ WF_vars(ActivatePub(s)) /\ WF_vars(ActivateOwn(s)) /\ WF_vars(ActivateCredit(s))
        /\ WF_vars(DeletePub(s)) /\ WF_vars(DeleteCredit(s))

ReturnSpec == Spec /\ StoreCallsReturn

\* ================================================================ claims
Creating(s) == pc[s] \in {"create_debit", "create_own", "create_pub"}
Redeeming(s) == pc[s] \in {"act_pub", "act_own", "act_credit"}
Cancelling(s) == pc[s] \in {"del_pub", "del_credit"}
VoucherExists(i) == own[i].exists \/ pub[i].exists
Credits(i) == credits[i].r + credits[i].c
VoucherActive(i) == (own[i].exists /\ own[i].active = 1) \/ (pub[i].exists /\ pub[i].active = 1)

\* no handler and no sign-in is suspended at a store call
Quiescent == \A s \in Sessions : pc[s] = "idle" /\ signin[s] # "create"

\* the amounts of the vouchers of set S that can be redeemed (ACTIVE in the
\* public collection)
RECURSIVE ActiveAmount(_)
ActiveAmount(S) ==
    IF S = {} THEN 0
    ELSE LET i == CHOOSE j \in S : TRUE
         IN  (IF pub[i].exists /\ pub[i].active = 1 THEN pub[i].amount ELSE 0)
             + ActiveAmount(S \ {i})

\* all stored balances and all redeemable vouchers
Funds == balance["A"] + balance["B"] + balance["C"] + ActiveAmount(Ids)

\* C1: of the redeems that distinct non-owner users run on one ACTIVE
\* voucher (a voucher written once), at most one reports success, and the
\* voucher's amount is credited at most once.
C1_OneRedeemWins ==
    \A i \in Ids : issued[i] <= 1 => (redeems[i] <= 1 /\ credits[i].r <= 1)

\* C2: an issue that reports success has lowered the stored balance by
\* exactly its amount with its debit write, and leaves its voucher ACTIVE in
\* both copies, with that amount and owner.
C2_IssueDebitsAndCreates ==
    [][\A s \in Sessions :
         (pc[s] = "create_pub" /\ pc'[s] = "idle" /\ message'[s].text = "Created")
         => /\ cmd[s].delta = cmd[s].amount
            /\ own'[cmd[s].id] = ChequeDoc(uid[s], cmd[s].id[2], cmd[s].amount, cmd[s].anonymous)
            /\ pub'[cmd[s].id] = ChequeDoc(uid[s], cmd[s].id[2], cmd[s].amount, cmd[s].anonymous)]_vars

\* C3: whenever no issue of a voucher is in flight (its issue completed or
\* was aborted by a rejected store write), the voucher record exists exactly
\* when its debit has been committed: no voucher without its debit, no debit
\* left applied without its voucher.
C3_DebitWithVoucher ==
    \A i \in Ids :
        (\A s \in Sessions : ~(Creating(s) /\ cmd[s].id = i))
        => (VoucherExists(i) <=> debits[i] >= 1)

\* C4: on a voucher (a record written by one issue) at most one redeem or
\* cancel ever reports success, and a copy of the voucher that is no longer
\* active never becomes active again.
C4_OneTerminalTransition ==
    [][\A i \in Ids :
         issued'[i] <= 1
         => /\ redeems'[i] + cancels'[i] <= 1
            /\ (pub[i].exists /\ pub[i].active = 0) => pub'[i].active = 0
            /\ (own[i].exists /\ own[i].active = 0) => own'[i].active = 0]_vars

\* C5: whenever no redeem or cancel of a voucher (written once) is in
\* flight (each completed or was aborted by a rejected store write), the
\* voucher has left ACTIVE exactly when a credit of its amount has been
\* committed.
C5_CreditWithTransition ==
    \A i \in Ids :
        (/\ issued[i] = 1 /\ own[i].exists /\ pub[i].exists
         /\ \A s \in Sessions : ~((Redeeming(s) \/ Cancelling(s)) /\ cmd[s].id = i))
        => ((own[i].active = 0 \/ pub[i].active = 0) <=> Credits(i) >= 1)

\* C6: a cancel confirmed by the owner after a redeem of the voucher has
\* reported success does not report "Deleted" and leaves every stored
\* balance as it is.
C6_CancelAfterRedeemFails ==
    [][\A s \in Sessions :
         (Cancelling(s) /\ cmd[s].wasFinal /\ pc'[s] # pc[s])
         => (message'[s].text # "Deleted" /\ balance' = balance)]_vars

\* C7: a redeem and a cancel of the same voucher (written once) never both
\* report success, and its amount is credited to at most one balance.
C7_RedeemOrCancel ==
    \A i \in Ids :
        issued[i] <= 1 => (~(redeems[i] >= 1 /\ cancels[i] >= 1) /\ Credits(i) <= 1)

\* C8: every user's stored balance is >= 0 in every reachable state.
C8_BalanceNonNegative ==
    \A u \in Users : balance[u] >= 0

\* C8 witness: an issue that started from a stale view of the balance has
\* committed its debit (the write did not lower the stored balance by the
\* amount) and the stored balance is 0.
C8_Witness ==
    \E s \in Sessions :
        /\ pc[s] = "create_own"
        /\ message[s].text = "BalanceUpdated"
        /\ cmd[s].delta # cmd[s].amount
        /\ balance[uid[s]] = 0

\* C9: every committed debit and credit is reflected in the stored balance
\* (the balance equals the initial balance plus the committed credits minus
\* the committed debits), and the committed debits never exceed the funds.
C9_NoLostUpdate ==
    \A u \in Users : balance[u] = net[u] /\ net[u] >= 0

\* C10: an issue whose amount is greater than the stored balance when its
\* debit is due ends there: it writes no balance and goes on to no voucher
\* write.
C10_InsufficientFundsRejected ==
    [][\A s \in Sessions :
         (pc[s] = "create_debit" /\ cmd[s].amount > balance[uid[s]] /\ pc'[s] # pc[s])
         => (pc'[s] = "idle" /\ balance' = balance)]_vars

\* C11: a redeem by a user who owns an ACTIVE voucher with the entered code
\* (ACTIVE in both copies), whose query the store answered, ends at once
\* with the self-activation message: it goes on to no write, so the voucher
\* stays ACTIVE and no balance changes.
C11_SelfRedemptionForbidden ==
    [][\A s \in Sessions, k \in ShortIds :
         (/\ ActivateQuery(s, k)
          /\ nFails' = nFails
          /\ own[<<uid[s], k>>] = pub[<<uid[s], k>>]
          /\ pub[<<uid[s], k>>].exists /\ pub[<<uid[s], k>>].active = 1)
         => (message'[s].text = "SelfActivation" /\ pc'[s] = "idle")]_vars

\* C12: an issue that ran alone (every session idle when it started, its
\* voucher a new record) and, once completed, is directly followed by its
\* owner's cancel, with no other handler invocation in between, leaves the
\* owner's stored balance at its value from before the issue once the cancel
\* reports success.
C12_IssueCancelRoundTrip ==
    [][\A s \in Sessions :
         (/\ pc[s] = "del_credit" /\ pc'[s] = "idle"
          /\ lastIssue.id = cmd[s].id
          /\ lastIssue.cancelling)
         => balance'[uid[s]] = lastIssue.bal]_vars

\* C13: an issue that ran alone and is submitted again by the session that
\* has just completed it (same amount, no other handler invoked in between)
\* is a replay: none of
\* its steps changes a stored balance or a voucher record, so the two
\* submissions leave one voucher and one debit.
C13_ReplayedIssueOnce ==
    [][\A s \in Sessions :
         (Creating(s) /\ cmd[s].replay) => (balance' = balance /\ own' = own /\ pub' = pub)]_vars

C15_CodeResolvesToOneActive ==
    \A k \in ShortIds :
        Cardinality({ i \in Ids : pub[i].exists /\ pub[i].short_id = k
                                  /\ pub[i].active = 1 }) <= 1

\* C16: an issue never writes over an existing voucher record: when its
\* setDoc of the owner's copy or of the public copy commits, no record had
\* the voucher's id before (a colliding code was replaced by a new one, or
\* the issue failed).
C16_IssueNeverOverwrites ==
    [][\A s \in Sessions :
         /\ (pc[s] = "create_own" /\ pc'[s] = "create_pub") => ~own[cmd[s].id].exists
         /\ (pc[s] = "create_pub" /\ message'[s].text = "Created") => ~pub[cmd[s].id].exists]_vars

\* C17: the amount and the owner of an existing voucher record never change,
\* in the owner's copy and in the public copy, whatever step is taken (the
\* anonymous flag is written by the same calls as these two fields).
C17_VoucherFieldsFixed ==
    [][\A i \in Ids :
         /\ own[i].exists => (own'[i].amount = own[i].amount /\ own'[i].owner_id = own[i].owner_id)
         /\ pub[i].exists => (pub'[i].amount = pub[i].amount /\ pub'[i].owner_id = pub[i].owner_id)]_vars

\* C18: every lag of a signed-in session's view behind the store ends (a
\* stored balance or an owner's voucher set that differs from what the
\* session shows is followed by a state where they agree), and from some
\* point on every session shows exactly the stored balance of its user and
\* exactly the vouchers of its user that are ACTIVE in the owner's copies.
C18_ProjectionConverges ==
    /\ \A s \in Sessions :
         (uid[s] # NoUser /\ userBalance[s] # balance[uid[s]])
            ~> (uid[s] # NoUser /\ userBalance[s] = balance[uid[s]])
    /\ <>[](\A s \in Sessions :
              uid[s] # NoUser
              => /\ userBalance[s] = balance[uid[s]]
                 /\ { c.id : c \in activeCheques[s] }
                      = { i \in Ids : i[1] = uid[s] /\ own[i].exists /\ own[i].active = 1 })

\* C18 witness: a session that has run no handler shows the balance and the
\* new voucher that an issue of another session of its user has committed.
C18_Witness ==
    \E s \in Sessions, t \in Sessions, i \in Ids :
        /\ s # t /\ uid[s] = uid[t] /\ uid[s] # NoUser
        /\ message[s].text = "none" /\ message[t].text = "Created"
        /\ lastIssue.id = i /\ lastIssue.by = t
        /\ i \in { c.id : c \in activeCheques[s] }
        /\ userBalance[s] = balance[uid[s]]
        /\ balance[uid[s]] = MaxInitBalance - lastIssue.amount

\* C19: the record of a voucher that is no longer ACTIVE is retained as it
\* is (never removed, never replaced), in the owner's copy and in the public
\* copy; a redeem goes on to its writes only for a voucher whose public copy
\* its query found ACTIVE; and a session's list of active vouchers, whenever
\* it is set, holds only vouchers whose owner's copy is ACTIVE at that time.
C19_TerminalVouchersRetained ==
    [][/\ \A i \in Ids :
            /\ (own[i].exists /\ own[i].active = 0) => own'[i] = own[i]
            /\ (pub[i].exists /\ pub[i].active = 0) => pub'[i] = pub[i]
       /\ \A s \in Sessions :
            /\ (pc[s] = "idle" /\ pc'[s] = "act_pub")
                 => (pub[cmd'[s].id].exists /\ pub[cmd'[s].id].active = 1)
            /\ activeCheques'[s] # activeCheques[s]
                 => \A c \in activeCheques'[s] :
                       own'[c.id].exists /\ own'[c.id].active = 1]_vars

\* C21: an issue submitted with an amount that does not parse or is not
\* positive shows InvalidAmount and ends there: the handler is not suspended
\* at any store call, and no balance and no voucher record has changed.
C21_InvalidAmountRejected ==
    [][\A s \in Sessions, a \in AmountInputs, k \in ShortIds, anon \in BOOLEAN :
         (CreateStart(s, a, k, anon) /\ a <= 0)
         => /\ message'[s].text = "InvalidAmount"
            /\ pc'[s] = "idle" /\ ~loading'[s]
            /\ balance' = balance /\ own' = own /\ pub' = pub]_vars

\* C21 witness: a session shows InvalidAmount after its first command, and
\* the store is as it was (every balance is what was committed, the copies
\* agree)
C21_Witness ==
    \E s \in Sessions :
        /\ message[s].text = "InvalidAmount" /\ pc[s] = "idle"
        /\ nCmds >= 1 /\ balance = net /\ pub = own
        /\ \A i \in Ids : issued[i] = debits[i]

\* C22: a profile is created with balance 0, and the balance of an existing
\* profile is changed only by the changeBalance of an issue, a redeem or a
\* cancel: no step of a sign-in changes the balance of a profile that
\* exists, whatever runs between the steps of the sign-in.
C22_SignInKeepsBalance ==
    [][\A u \in Users :
         /\ (~profile[u] /\ profile'[u]) => balance'[u] = 0
         /\ (profile[u] /\ balance'[u] # balance[u])
            => \E s \in Sessions :
                 /\ uid[s] = u
                 /\ pc[s] \in {"create_debit", "act_credit", "del_credit"}
                 /\ pc'[s] # pc[s]
                 /\ signin'[s] = signin[s]]_vars

\* C23: a redeem that reports success reads the voucher it redeems from the
\* public collection, keeps what it has read, and its confirmation carries
\* the amount of that voucher and, exactly when the voucher is not
\* anonymous, its owner's name; the confirmation of an anonymous voucher
\* names no owner.
C23_ConfirmationContent ==
    [][\A s \in Sessions :
         /\ (pc[s] = "idle" /\ pc'[s] = "act_pub")
            => /\ pub[cmd'[s].id].exists /\ pub[cmd'[s].id].active = 1
               /\ cmd'[s].amount = pub[cmd'[s].id].amount
               /\ cmd'[s].anonymous = pub[cmd'[s].id].anonymous
               /\ cmd'[s].id[1] = pub[cmd'[s].id].owner_id
         /\ (Redeeming(s) /\ pc'[s] \in {"act_own", "act_credit"}) => cmd'[s] = cmd[s]
         /\ (pc[s] = "act_credit" /\ pc'[s] = "idle")
            => /\ message'[s].text = "Activated"
               /\ message'[s].amount = cmd[s].amount
               /\ (message'[s].from = "") <=> cmd[s].anonymous
               /\ ~cmd[s].anonymous => message'[s].from = cmd[s].id[1]]_vars

\* C23 witness: a user has redeemed an anonymous voucher of another user
\* and the confirmation shows its amount and names nobody
C23_Witness ==
    \E s \in Sessions, i \in Ids :
        /\ message[s].text = "Activated" /\ message[s].from = ""
        /\ message[s].amount = MaxAmount
        /\ pub[i].exists /\ pub[i].anonymous /\ pub[i].active = 0
        /\ pub[i].amount = MaxAmount /\ uid[s] # i[1]
        /\ redeems[i] = 1

\* C24: in every state where no command is in flight the stored balances
\* and the amounts of the ACTIVE vouchers add up to what they added up to
\* at the start (the balances of A and B and A's voucher of amount 1).
C24_FundsConserved ==
    Quiescent => Funds = 2 * MaxInitBalance + 1

\* C25: in every state where no command is in flight (each has completed
\* or was aborted by a rejected store write) every voucher has its owner's
\* copy and its public copy, and the two carry the same active flag and the
\* same amount.
C25_CopiesAgree ==
    Quiescent =>
        \A i \in Ids :
            VoucherExists(i)
            => /\ own[i].exists /\ pub[i].exists
               /\ own[i].active = pub[i].active
               /\ own[i].amount = pub[i].amount

\* C26: a command reports success only when its balance write has been
\* committed too: an issue that shows "Created" has had its debit accepted,
\* a redeem that shows "Activated" and a cancel that shows "Deleted" commit
\* their credit in the step that shows it.
C26_SuccessMeansCommitted ==
    [][\A s \in Sessions :
         /\ (pc[s] = "create_pub" /\ message'[s].text = "Created")
            => message[s].text = "BalanceUpdated"
         /\ (pc[s] = "act_credit" /\ message'[s].text = "Activated")
            => credits'[cmd[s].id].r = credits[cmd[s].id].r + 1
         /\ (pc[s] = "del_credit" /\ message'[s].text = "Deleted")
            => credits'[cmd[s].id].c = credits[cmd[s].id].c + 1]_vars

\* C27: a session starts a command only while it is not loading, and from
\* the start of a command's store writes until the command ends the
\* session's loading flag is true, so that no further command can be
\* started from the session meanwhile.
C27_LoadingWhileInFlight ==
    [][\A s \in Sessions :
         /\ (pc[s] = "idle" /\ pc'[s] # "idle") => ~loading[s]
         /\ (Creating(s) \/ Redeeming(s) \/ Cancelling(s))
            => /\ loading[s]
               /\ pc'[s] # "idle" => loading'[s]]_vars

\* C28: a redeem deactivates the public copy, then the owner's copy, then
\* credits the redeemer, and a rejected write ends it without a further
\* write: when the credit of a redeem is committed, the public record of
\* its voucher is not ACTIVE.
C28_CreditAfterDeactivation ==
    [][\A s \in Sessions :
         /\ (pc[s] = "act_pub" /\ pc'[s] # pc[s])
            => /\ balance' = balance /\ own' = own
               /\ pc'[s] = "act_own" => pub'[cmd[s].id].active = 0
               /\ pc'[s] # "act_own" => (pc'[s] = "idle" /\ pub' = pub)
         /\ (pc[s] = "act_own" /\ pc'[s] # pc[s])
            => /\ balance' = balance /\ pub' = pub
               /\ pc'[s] = "act_credit" => own'[cmd[s].id].active = 0
               /\ pc'[s] # "act_credit" => (pc'[s] = "idle" /\ own' = own)
         /\ (pc[s] = "act_credit" /\ credits'[cmd[s].id].r # credits[cmd[s].id].r)
            => ~(pub[cmd[s].id].exists /\ pub[cmd[s].id].active = 1)]_vars

\* C29: an issue writes the debit, then the owner's copy, then the public
\* copy: when the write of the public copy makes the voucher redeemable,
\* the debit of that issue has been committed and the owner's copy has
\* been written.
C29_RedeemableAfterDebit ==
    [][\A s \in Sessions :
         /\ (pc[s] = "create_debit" /\ pc'[s] # pc[s]) => (own' = own /\ pub' = pub)
         /\ (pc[s] = "create_own" /\ pc'[s] # pc[s]) => (balance' = balance /\ pub' = pub)
         /\ (pc[s] = "create_pub" /\ pc'[s] # pc[s] /\ pub'[cmd[s].id].exists
             /\ pub'[cmd[s].id].active = 1 /\ nFails' = nFails)
            => /\ message[s].text = "BalanceUpdated"
               /\ own[cmd[s].id].exists
               /\ balance' = balance /\ own' = own]_vars

\* C30: when two or more public records carry the entered code, a redeem
\* whose query the store answered takes the first ACTIVE one: if the
\* redeemer owns it the redeem ends as self-redemption and nothing is
\* written; otherwise the redeem writes to no other voucher, and when it
\* reports success the redeemer's stored balance has grown by exactly the
\* amount of that voucher.
C30_OneOfSeveralRedeemed ==
    [][\A s \in Sessions :
         /\ \A k \in ShortIds :
              (/\ ActivateQuery(s, k) /\ nFails' = nFails
               /\ Cardinality({ i \in Ids : pub[i].exists /\ pub[i].short_id = k }) >= 2
               /\ \E i \in Ids : pub[i].exists /\ pub[i].short_id = k /\ pub[i].active = 1)
              => LET act == { i \in Ids : pub[i].exists /\ pub[i].short_id = k
                                          /\ pub[i].active = 1 }
                     first == CHOOSE i \in act : \A j \in act : Rank(i[1]) <= Rank(j[1])
                 IN  IF first[1] = uid[s]
                       THEN message'[s].text = "SelfActivation" /\ pc'[s] = "idle"
                       ELSE pc'[s] = "act_pub" /\ cmd'[s].id = first
         /\ (/\ Redeeming(s) /\ pc'[s] # pc[s]
             /\ Cardinality({ i \in Ids : pub[i].exists
                                          /\ pub[i].short_id = cmd[s].id[2] }) >= 2)
            => /\ \A j \in Ids \ {cmd[s].id} : own'[j] = own[j] /\ pub'[j] = pub[j]
               /\ message'[s].text = "Activated"
                  => /\ balance'[uid[s]] = balance[uid[s]] + cmd[s].amount
                     /\ pub[cmd[s].id].active = 0 /\ own[cmd[s].id].active = 0]_vars

\* C31: when every awaited store call returns or is rejected, every issue,
\* redeem and confirmed cancel that is in flight ends: its session gets
\* back to loading = false with no handler suspended, and after a confirmed
\* cancel the confirmation modal is closed as well.
C31_CommandsTerminate ==
    \A s \in Sessions :
        /\ (Creating(s) \/ Redeeming(s)) ~> (pc[s] = "idle" /\ ~loading[s])
        /\ Cancelling(s) ~> (pc[s] = "idle" /\ ~loading[s] /\ ~showModal[s])

\* C31 witness: a confirmed cancel was ended by a rejected store call, and
\* its session is neither loading nor covered by the modal
C31_Witness ==
    \E s \in Sessions :
        /\ message[s].text = "DeleteError" /\ nFails >= 1
        /\ pc[s] = "idle" /\ ~loading[s] /\ ~showModal[s]
        /\ \E i \in Ids : i[1] = uid[s] /\ own[i].exists /\ own[i].active = 0
                           /\ pub[i].exists /\ pub[i].active = 1

\* C32: a redeem submitted with an empty code shows the request to enter a
\* code and ends there: no query is sent (so none can be rejected), the
\* loading flag is not touched, no handler is suspended, and no balance and
\* no voucher record changes.
C32_EmptyCodeRejected ==
    [][\A s \in Sessions :
         ActivateQuery(s, "")
         => /\ message'[s].text = "EmptyCode"
            /\ loading' = loading /\ pc' = pc /\ cmd' = cmd
            /\ nFails' = nFails
            /\ balance' = balance /\ own' = own /\ pub' = pub]_vars

\* C32 witness: a session shows the request to enter a code after its
\* redeem, no store call has been rejected and the store is as at the start
C32_Witness ==
    \E s \in Sessions :
        /\ message[s].text = "EmptyCode" /\ ~loading[s] /\ pc[s] = "idle"
        /\ nCmds = 1 /\ nFails = 0
        /\ balance = net /\ pub = own
        /\ \A i \in Ids : issued[i] = debits[i] /\ redeems[i] = 0
====
